---- MODULE Spec2Model ----
\* Model of the LLMAXX API utility (src/src/utils/api.js): the APIManager
\* request queue, the providers' abort controllers, the status checks, and
\* the newline-delimited JSON stream decoder of OllamaProvider.stream with
\* its cancellation, the payload and result of one provider call, and the
\* status monitor polling beside chats and streams.
EXTENDS Integers, Sequences, FiniteSets, TLC

\* ---------------------------------------------------------------- bounds
\* Facade calls the callers make in one run: sendMessage / generateText,
\* cancelRequest and streamMessage together.
MaxCalls == 4
\* executeRequest calls in one run.
MaxDispatch == 3
\* Newline-terminated lines in a streamed response body.
MaxLines == 2
\* reader.read() results that carry bytes, per stream.
MaxReads == 2
\* checkStatus calls in one run.
MaxChecks == 2

\* ------------------------------------------------------------- constants
\* abortController = null
Null == 0

\* A provider name argument left out (name = null, providerName = null).
Omitted == ""

\* The registry filled by initializeProviders.
Providers == {"ollama", "openai", "anthropic", "google"}

\* Names a caller may pass to setActiveProvider: the registered ones and one
\* that is not registered.
ProviderNames == Providers \cup {"mistral"}

\* ERROR_MESSAGES.apiError (src/src/utils/constants.js)
apiError == "API request failed"

VARIABLES
    activeProvider,   \* APIManager.activeProvider
    requestQueue,     \* APIManager.requestQueue: sequence of request ids
    isProcessing,     \* APIManager.isProcessing
    abortController,  \* provider name -> bound controller id, or Null
    abortedCtl,       \* controllers with signal.aborted set that a transport
                      \* in flight still holds
    nextCtl,          \* id of the next AbortController object to be created
    nRequests,        \* number of requests built by sendMessage / generateText
    execs,            \* suspended executeRequest calls (await not yet resumed)
    nextEid,          \* id of the next executeRequest call
    promise,          \* request id -> state of the promise sendMessage returned
    started,          \* history: request id -> number of executeRequest calls
    outcomes,         \* history: request id -> set of ways its calls settled
    lastSettle,       \* history: the most recent settled call and how
    streams,          \* open OllamaProvider.stream transports
    nCalls,           \* number of facade calls made so far
    nCancel,          \* number of cancelRequest calls
    dropped,          \* history: never-started requests a cancelRequest removed
    rejection,        \* request id -> the message of the error the provider
                      \* call awaited for the caller rejected with, and the
                      \* message of the error sendMessage threw to the caller
    lastSwitch,       \* the return value of setActiveProvider that a caller
                      \* has kept most recently
    checks,           \* suspended APIManager.checkStatus calls
    statusResults,    \* how the checkStatus calls made so far settled
    nChecks,          \* number of checkStatus calls made so far
    body,             \* the bytes of the streamed response body
    pos,              \* number of body bytes reader.read() has returned
    cuts,             \* history: the values of pos at which a read ended
    pendingBytes,     \* TextDecoder: bytes of an incomplete character
    buffer,           \* buffer of OllamaProvider.stream
    lines,            \* lines of the current read the for loop has not reached
    yielded,          \* chunks the generator has yielded
    spc,              \* where the generator is: "read" (awaiting
                      \* reader.read()), "lines" (in the for loop), or how
                      \* it finished: "ended" (returned), "aborted" (returned
                      \* on an AbortError), "failed" (threw), "returned"
                      \* (the consumer left the loop)
    doneSeen,         \* history: a frame with done: true was decoded
    atYield,          \* the generator is suspended at the yield
    options,          \* the options argument of one chat / generate / stream
    payload,          \* the request payload built from it
    reply,            \* the JSON body the backend answered with
    result            \* what chat / generate returned for it

queueVars == <<activeProvider, requestQueue, isProcessing, abortController,
               abortedCtl, nextCtl, nRequests, execs, nextEid, promise,
               started, outcomes, lastSettle, streams, nCalls, nCancel,
               dropped, rejection, lastSwitch, checks, statusResults, nChecks>>

statusVars == <<checks, statusResults, nChecks>>

decoderVars == <<body, pos, cuts, pendingBytes, buffer, lines, yielded, spc,
                 doneSeen, atYield>>

callVars == <<options, payload, reply, result>>

vars == <<queueVars, decoderVars, callVars>>

\* ---------------------------------------------------------------- helpers
Range(s) == {s[i] : i \in 1..Len(s)}

\* Array.prototype.filter(r => r !== request)
RECURSIVE FilterOut(_, _)
FilterOut(q, r) ==
    IF q = <<>> THEN <<>>
    ELSE IF Head(q) = r THEN FilterOut(Tail(q), r)
         ELSE <<Head(q)>> \o FilterOut(Tail(q), r)

\* History of one more executeRequest call of request r, a new request when
\* r is one past the ones recorded.
Start(h, r) ==
    IF r > Len(h) THEN Append(h, 1) ELSE [h EXCEPT ![r] = h[r] + 1]

\* History before any call of a request that was only queued.
Queued(h, r) == IF r > Len(h) THEN Append(h, 0) ELSE h

\* --------------------------------------------------------------- registry
\* APIManager.getProvider(name = null): name || this.activeProvider
getProvider(name) == IF name = Omitted THEN activeProvider ELSE name

\* Whether a chat / generate / stream call on provider p reaches the network:
\* only OllamaProvider implements them (through makeRequest or fetch); the
\* cloud providers' chat and BaseProvider's generate and stream throw.
HasTransport(p) == p = "ollama"

\* ------------------------------------------------------- abort controllers
\* The controllers held by the transports in flight after the step; an
\* aborted controller nothing holds any more is an unreachable object.
HeldCtl ==
    {e.ctl : e \in execs'} \cup {s.ctl : s \in streams'}
        \cup {c.ctl : c \in checks'}

\* this.abortController.abort() inside BaseProvider.cancel
AbortedAfterCancel(p) ==
    IF abortController[p] # Null THEN abortedCtl \cup {abortController[p]}
    ELSE abortedCtl

\* cancel without this.abortController = null.
cancelKeepsBound(p) ==
    /\ abortedCtl' = AbortedAfterCancel(p) \cap HeldCtl
    /\ abortController' = abortController
    /\ nextCtl' = nextCtl

\* BaseProvider.cancel: abort the bound controller, if any, and unbind it.
cancel(p) ==
    /\ abortedCtl' = AbortedAfterCancel(p) \cap HeldCtl
    /\ abortController' = [abortController EXCEPT ![p] = Null]
    /\ nextCtl' = nextCtl

\* createAbortController handing out the same controller object again
\* instead of new AbortController().
createAbortControllerSame(p) ==
    /\ abortedCtl' = AbortedAfterCancel(p) \cap HeldCtl
    /\ abortController' = [abortController EXCEPT ![p] = nextCtl]
    /\ nextCtl' = nextCtl

\* createAbortController without its this.cancel(): the controller bound
\* before is replaced and never aborted.
createAbortControllerNoCancel(p) ==
    /\ abortedCtl' = abortedCtl \cap HeldCtl
    /\ abortController' = [abortController EXCEPT ![p] = nextCtl]
    /\ nextCtl' = nextCtl + 1

\* BaseProvider.createAbortController: cancel what is bound, bind a new one.
createAbortController(p) ==
    /\ abortedCtl' = AbortedAfterCancel(p) \cap HeldCtl
    /\ abortController' = [abortController EXCEPT ![p] = nextCtl]
    /\ nextCtl' = nextCtl + 1

\* No controller is created or aborted in the step.
NoAbortChange ==
    /\ abortedCtl' = abortedCtl \cap HeldCtl
    /\ UNCHANGED <<abortController, nextCtl>>

\* ------------------------------------------------------------------ queue
\* executeRequest calling the provider that was active when the manager was
\* constructed instead of asking getProvider() at dispatch.
executeRequestOnDefault(baseExecs, r, owner) ==
    /\ nextEid <= MaxDispatch
    /\ nextEid' = nextEid + 1
    /\ started' = Start(started, r)
    /\ execs' = baseExecs \cup
          {[eid |-> nextEid, req |-> r, prov |-> "ollama", ctl |-> nextCtl,
            owner |-> owner]}
    /\ createAbortController("ollama")

\* APIManager.executeRequest up to its await: the active provider's chat or
\* generate is called. On ollama that runs makeRequest (a new controller is
\* bound and fetch starts); on a provider without an implementation the call
\* returns a rejected promise and no transport is started.
executeRequest(baseExecs, r, owner) ==
    LET p == getProvider(Omitted) IN
    /\ nextEid <= MaxDispatch
    /\ nextEid' = nextEid + 1
    /\ started' = Start(started, r)
    /\ IF HasTransport(p)
       THEN /\ execs' = baseExecs \cup
                 {[eid |-> nextEid, req |-> r, prov |-> p, ctl |-> nextCtl,
                   owner |-> owner]}
            /\ createAbortController(p)
       ELSE /\ execs' = baseExecs \cup
                 {[eid |-> nextEid, req |-> r, prov |-> p, ctl |-> Null,
                   owner |-> owner]}
            /\ NoAbortChange

\* APIManager.processRequest up to its first await, entered with queue q and
\* flag busy: push, then execute only when nothing is being processed.
processRequest(q, busy, baseExecs, r, owner) ==
    /\ requestQueue' = Append(q, r)
    /\ IF ~busy
       THEN /\ isProcessing' = TRUE
            /\ executeRequest(baseExecs, r, owner)
       ELSE /\ isProcessing' = busy
            /\ execs' = baseExecs
            /\ started' = Queued(started, r)
            /\ nextEid' = nextEid
            /\ NoAbortChange

\* The finally block taking the most recently pushed request instead of the
\* head of the queue.
processNextNewestFirst(q, baseExecs) ==
    IF Len(q) > 0
    THEN processRequest(q, FALSE, baseExecs, q[Len(q)], FALSE)
    ELSE /\ requestQueue' = q
         /\ isProcessing' = FALSE
         /\ execs' = baseExecs
         /\ started' = started
         /\ nextEid' = nextEid
         /\ NoAbortChange

\* The finally block of processRequest, entered with queue q after the
\* awaited executeRequest call settled: clear the flag, process the head.
processNext(q, baseExecs) ==
    IF Len(q) > 0
    THEN processRequest(q, FALSE, baseExecs, q[1], FALSE)
    ELSE /\ requestQueue' = q
         /\ isProcessing' = FALSE
         /\ execs' = baseExecs
         /\ started' = started
         /\ nextEid' = nextEid
         /\ NoAbortChange

\* No error was thrown to the caller of sendMessage / generateText.
NoError == [error |-> "none", thrown |-> "none"]

\* The error the provider call awaited by executeRequest rejects with: the
\* cloud providers' chat throws "not fully implemented"; makeRequest turns
\* an AbortError into Error('Request cancelled') and rethrows anything else.
providerError(e, what) ==
    IF e.ctl = Null THEN "not fully implemented"
    ELSE IF what = "cancelled" THEN "Request cancelled"
    ELSE "Failed to fetch"

\* The catch block of sendMessage / generateText:
\* throw new Error(ERROR_MESSAGES.apiError), whatever was caught.
sendMessageError(error) == apiError

\* sendMessage / generateText: build the request and await processRequest.
\* A request pushed while isProcessing is set gets processRequest's implicit
\* return value at once: its promise resolves with undefined.
Submit ==
    /\ nCalls < MaxCalls
    /\ nCalls' = nCalls + 1
    /\ UNCHANGED <<activeProvider, streams, nCancel, dropped, lastSwitch,
                   statusVars, decoderVars, callVars>>
    /\ LET r == nRequests + 1 IN
       /\ nRequests' = r
       /\ processRequest(requestQueue, isProcessing, execs, r, TRUE)
       /\ outcomes' = Append(outcomes, {})
       /\ lastSettle' = lastSettle
       /\ promise' = Append(promise,
                            IF isProcessing THEN "undefined" ELSE "pending")
       /\ rejection' = Append(rejection, NoError)

\* The provider call awaited by executeRequest resolves: processRequest
\* removes the request from the queue, returns the result, runs finally.
SettleSuccess(e) ==
    /\ UNCHANGED <<activeProvider, nRequests, streams, nCalls, nCancel,
                   dropped, rejection, lastSwitch, statusVars, decoderVars, callVars>>
    /\ processNext(FilterOut(requestQueue, e.req), execs \ {e})
    /\ outcomes' = [outcomes EXCEPT ![e.req] = @ \cup {"ok"}]
    /\ lastSettle' = [req |-> e.req, what |-> "ok"]
    /\ promise' = IF e.owner THEN [promise EXCEPT ![e.req] = "result"]
                  ELSE promise

\* The awaited provider call rejects with what: the filter line is skipped,
\* the error propagates to the caller (if any), finally runs.
SettleError(e, what) ==
    /\ UNCHANGED <<activeProvider, nRequests, streams, nCalls, nCancel,
                   dropped, lastSwitch, statusVars, decoderVars, callVars>>
    /\ processNext(requestQueue, execs \ {e})
    /\ outcomes' = [outcomes EXCEPT ![e.req] = @ \cup {what}]
    /\ lastSettle' = [req |-> e.req, what |-> what]
    /\ promise' = IF e.owner THEN [promise EXCEPT ![e.req] = "rejected"]
                  ELSE promise
    /\ rejection' =
           IF e.owner
           THEN [rejection EXCEPT ![e.req] =
                    [error |-> providerError(e, what),
                     thrown |-> sendMessageError(providerError(e, what))]]
           ELSE rejection

\* The awaited provider calls settle in any order, and facade calls may come
\* between an abort (or a rejected call) and the resumption of the awaiting
\* processRequest, which runs in a later microtask.
\* fetch and response.json() of a live transport succeed.
TransportComplete ==
    \E e \in execs : e.ctl # Null /\ e.ctl \notin abortedCtl /\ SettleSuccess(e)

\* A network failure or HTTP error on a live transport, or the "not
\* implemented" error of a provider without chat / generate.
TransportFail ==
    \E e \in execs : e.ctl \notin abortedCtl /\ SettleError(e, "fail")

\* fetch rejects with AbortError: makeRequest throws "Request cancelled".
TransportAborted ==
    \E e \in execs : e.ctl \in abortedCtl /\ SettleError(e, "cancelled")

\* cancelRequest without the assignment that clears the queue.
CancelRequestKeepQueue ==
    /\ nCalls < MaxCalls
    /\ nCalls' = nCalls + 1
    /\ nCancel' = nCancel + 1
    /\ UNCHANGED <<activeProvider, nRequests, execs, nextEid, promise, started,
                   outcomes, lastSettle, streams, rejection, lastSwitch,
                   statusVars, decoderVars, callVars>>
    /\ cancel(getProvider(Omitted))
    /\ requestQueue' = requestQueue
    /\ isProcessing' = FALSE
    /\ dropped' = dropped \cup {r \in Range(requestQueue) : started[r] = 0}

\* APIManager.cancelRequest
CancelRequest ==
    /\ nCalls < MaxCalls
    /\ nCalls' = nCalls + 1
    /\ nCancel' = nCancel + 1
    /\ UNCHANGED <<activeProvider, nRequests, execs, nextEid, promise, started,
                   outcomes, lastSettle, streams, rejection, lastSwitch,
                   statusVars, decoderVars, callVars>>
    /\ cancel(getProvider(Omitted))
    /\ requestQueue' = <<>>
    /\ isProcessing' = FALSE
    /\ dropped' = dropped \cup {r \in Range(requestQueue) : started[r] = 0}

\* setActiveProvider without the providers.has(name) test.
setActiveProviderUnchecked(name) ==
    /\ activeProvider' = name
    /\ UNCHANGED <<requestQueue, isProcessing, abortController, abortedCtl,
                   nextCtl, nRequests, execs, nextEid, promise, started,
                   outcomes, lastSettle, streams, nCalls, nCancel, dropped,
                   rejection, statusVars, decoderVars, callVars>>

\* APIManager.setActiveProvider: what it does to the manager
setActiveProvider(name) ==
    /\ activeProvider' = IF name \in Providers THEN name ELSE activeProvider
    /\ UNCHANGED <<requestQueue, isProcessing, abortController, abortedCtl,
                   nextCtl, nRequests, execs, nextEid, promise, started,
                   outcomes, lastSettle, streams, nCalls, nCancel, dropped,
                   rejection, statusVars, decoderVars, callVars>>

\* APIManager.setActiveProvider: what it returns
setActiveProviderReturns(name) == IF name \in Providers THEN "true" ELSE "false"

\* A caller that does not look at the return value.
SwitchProvider ==
    \E name \in ProviderNames :
        setActiveProvider(name) /\ lastSwitch' = lastSwitch

\* A caller that keeps the return value.
SwitchProviderChecked ==
    \E name \in ProviderNames :
        setActiveProvider(name) /\ lastSwitch' = setActiveProviderReturns(name)

\* APIManager.streamMessage, first next(): the active provider's stream runs
\* up to its fetch. Only OllamaProvider implements stream; BaseProvider.stream
\* throws and nothing is opened.
StreamOpen ==
    /\ nCalls < MaxCalls
    /\ nCalls' = nCalls + 1
    /\ UNCHANGED <<activeProvider, requestQueue, isProcessing, nRequests, execs,
                   nextEid, promise, started, outcomes, lastSettle, nCancel,
                   dropped, rejection, lastSwitch, statusVars, decoderVars, callVars>>
    /\ LET p == getProvider(Omitted) IN
       IF HasTransport(p)
       THEN /\ streams' = streams \cup {[ctl |-> nextCtl]}
            /\ createAbortController(p)
       ELSE /\ streams' = streams
            /\ NoAbortChange

\* The stream generator returns: terminal frame, end of body, an error, or
\* AbortError after its controller was aborted.
StreamClose ==
    /\ UNCHANGED <<activeProvider, requestQueue, isProcessing, nRequests, execs,
                   nextEid, promise, started, outcomes, lastSettle, nCalls,
                   nCancel, dropped, rejection, lastSwitch, statusVars,
                   decoderVars, callVars>>
    /\ \E s \in streams : streams' = streams \ {s}
    /\ NoAbortChange

\* ------------------------------------------------------------ checkStatus
\* What a caller may pass to checkStatus: nothing, a registered name, a name
\* that is not registered.
StatusArgs == {Omitted} \cup ProviderNames

\* The outcomes of the fetch inside provider.checkStatus: response.ok is
\* true, response.ok is false, fetch throws.
ProbeOutcomes == {"ok", "notok", "fail"}

\* Whether getModels of provider p reaches the network: OllamaProvider's
\* goes through makeRequest, the cloud providers' return [].
FetchesModels(p) == p = "ollama"

\* The object checkStatus returns from its try block. error is "none": the
\* object has no error member.
StatusResult(p, probe, listing) ==
    [settled |-> "resolved", provider |-> p, online |-> (probe = "ok"),
     models |-> IF listing = "ok" THEN "list" ELSE "empty",
     error |-> "none", probe |-> probe, listing |-> listing]

\* checkStatus called for a name that getProvider does not find: provider is
\* undefined, provider.checkStatus() throws a TypeError inside the try block,
\* and the catch block throws another one when it reads provider.name.
StatusRejected(name) ==
    [settled |-> "rejected", provider |-> name, online |-> FALSE,
     models |-> "none", error |-> "TypeError", probe |-> "none",
     listing |-> "none"]

\* The facade operations other than checkStatus leave these alone.
StatusCallUnchanged ==
    UNCHANGED <<activeProvider, requestQueue, isProcessing, nRequests, execs,
                nextEid, promise, started, outcomes, lastSettle, streams,
                nCalls, nCancel, dropped, rejection, lastSwitch, decoderVars, callVars>>

\* APIManager.checkStatus(name) up to its first await: the provider's
\* checkStatus has started its fetch (which carries no signal).
checkStatus(name) ==
    LET p == getProvider(name) IN
    /\ nChecks < MaxChecks
    /\ nChecks' = nChecks + 1
    /\ StatusCallUnchanged
    /\ IF p \in Providers
       THEN /\ checks' = checks \cup
                 {[id |-> nChecks + 1, prov |-> p, phase |-> "probe",
                   probe |-> "none", ctl |-> Null]}
            /\ statusResults' = statusResults
       ELSE /\ checks' = checks
            /\ statusResults' = statusResults \cup {StatusRejected(p)}
    /\ NoAbortChange

CheckStatusCall == \E name \in StatusArgs : checkStatus(name)

\* provider.checkStatus() settles with outcome (it catches what fetch throws
\* and returns false), and checkStatus calls provider.getModels(): on ollama
\* makeRequest binds a new controller and starts its fetch, on a cloud
\* provider [] comes back and checkStatus returns.
ProbeSettles(c, outcome) ==
    /\ c.phase = "probe"
    /\ nChecks' = nChecks
    /\ StatusCallUnchanged
    /\ IF FetchesModels(c.prov)
       THEN /\ checks' = (checks \ {c}) \cup
                 {[c EXCEPT !.phase = "models", !.probe = outcome,
                            !.ctl = nextCtl]}
            /\ statusResults' = statusResults
            /\ createAbortController(c.prov)
       ELSE /\ checks' = checks \ {c}
            /\ statusResults' =
                   statusResults \cup {StatusResult(c.prov, outcome, "none")}
            /\ NoAbortChange

StatusProbe == \E c \in checks, outcome \in ProbeOutcomes : ProbeSettles(c, outcome)

\* The makeRequest of OllamaProvider.getModels settles: with the model list,
\* with a network or HTTP error, or with 'Request cancelled' when its
\* controller was aborted. getModels catches the error and returns [], and
\* checkStatus returns its result.
ModelsSettle(c, listing) ==
    /\ c.phase = "models"
    /\ (listing = "cancelled") <=> (c.ctl \in abortedCtl)
    /\ nChecks' = nChecks
    /\ StatusCallUnchanged
    /\ checks' = checks \ {c}
    /\ statusResults' = statusResults \cup {StatusResult(c.prov, c.probe, listing)}
    /\ NoAbortChange

StatusModels ==
    \E c \in checks, listing \in {"ok", "fail", "cancelled"} :
        ModelsSettle(c, listing)

\* APIManager constructor and BaseProvider constructor.
InitQueue ==
    /\ activeProvider = "ollama"
    /\ requestQueue = <<>>
    /\ isProcessing = FALSE
    /\ abortController = [p \in Providers |-> Null]
    /\ abortedCtl = {}
    /\ nextCtl = 1
    /\ nRequests = 0
    /\ execs = {}
    /\ nextEid = 1
    /\ promise = <<>>
    /\ started = <<>>
    /\ outcomes = <<>>
    /\ lastSettle = [req |-> 0, what |-> "none"]
    /\ streams = {}
    /\ nCalls = 0
    /\ nCancel = 0
    /\ dropped = {}
    /\ rejection = <<>>
    /\ lastSwitch = "none"
    /\ checks = {}
    /\ statusResults = {}
    /\ nChecks = 0

\* No stream body is being decoded.
NoStreamBody ==
    /\ body = <<>>
    /\ pos = 0
    /\ cuts = {}
    /\ pendingBytes = <<>>
    /\ buffer = <<>>
    /\ lines = <<>>
    /\ yielded = <<>>
    /\ spc = "ended"
    /\ doneSeen = FALSE
    /\ atYield = FALSE

\* Nothing sent, nothing received, nothing returned yet.
NoPayload ==
    [op |-> "none", model |-> "none", temperature |-> "none",
     top_p |-> "none", max_tokens |-> "none"]

NoReply == [text |-> "none", model |-> "none", done |-> "none"]

NoResult == [content |-> "none", model |-> "none", done |-> "none"]

\* No single provider call is being followed.
NoCall ==
    /\ options = "none"
    /\ payload = NoPayload
    /\ reply = NoReply
    /\ result = NoResult

Init == InitQueue /\ NoStreamBody /\ NoCall

Next ==
    \/ Submit
    \/ TransportComplete
    \/ TransportFail
    \/ TransportAborted
    \/ CancelRequest
    \/ SwitchProvider
    \/ StreamOpen
    \/ StreamClose

Spec == Init /\ [][Next]_vars

\* The facade used for status checks: checkStatus calls with their probes
\* and model listings in flight, cancelRequest and setActiveProvider.
NextStatus ==
    \/ CheckStatusCall
    \/ StatusProbe
    \/ StatusModels
    \/ CancelRequest
    \/ SwitchProviderChecked

SpecStatus == Init /\ [][NextStatus]_vars

\* SystemMonitorComponent.updateSystemInfo, run on a timer whatever the
\* chat view is doing: it returns at once while an earlier run is still
\* awaiting (isUpdating), and otherwise calls api.checkStatus('ollama'),
\* which runs up to its first await.
MonitorCheck == checks = {} /\ checkStatus("ollama")

\* The probe of the monitor's check is answered by a running server.
\* checkStatus calls getModels whatever the probe returned.
MonitorProbe == \E c \in checks : ProbeSettles(c, "ok")

\* The application with its status monitor polling: chats, generations and
\* streams in flight beside the monitor's status checks.
NextMonitor ==
    \/ Submit
    \/ TransportComplete
    \/ TransportAborted
    \/ StreamOpen
    \/ StreamClose
    \/ MonitorCheck
    \/ MonitorProbe
    \/ StatusModels

SpecMonitor == Init /\ [][NextMonitor]_vars

\* -------------------------------------------------------- stream decoder
\* Bytes are written as strings: an ASCII byte as its character, "C3" and
\* "A9" for the two bytes of U+00E9. Text is a sequence of characters: an
\* ASCII character as itself, "E9" for U+00E9, "FFFD" for U+FFFD.
\* A frame is written with one character per JSON token: "{" and "}", "a"
\* and "E9" for a message member with that non-empty content, "d" for the
\* member done: true.
ContentTokens == {"a", "E9"}

Whitespace == {" ", "\t", "\r", "\n"}

\* The lines a response body is made of: content frames, a terminal frame
\* with and without content, a truncated (malformed) frame, a blank line.
FrameLines ==
    { <<"{", "a", "}">>,
      <<"{", "C3", "A9", "}">>,
      <<"{", "a", "d", "}">>,
      <<"{", "d", "}">>,
      <<"{", "a">>,
      <<" ">> }

RECURSIVE Flatten(_)
Flatten(ls) ==
    IF ls = <<>> THEN <<>> ELSE Head(ls) \o <<"\n">> \o Flatten(Tail(ls))

\* Bodies: up to MaxLines newline-terminated lines, then possibly a last line
\* that the server did not terminate.
Bodies ==
    { Flatten(ls) \o last :
        ls \in UNION {[1..n -> FrameLines] : n \in 0..MaxLines},
        last \in FrameLines \cup {<<>>} } \ {<<>>}

\* TextDecoder.decode(value, {stream: true}) applied to the held bytes
\* followed by value: the decoded text, and the bytes of an incomplete
\* character held for the next call.
RECURSIVE decode(_)
decode(bs) ==
    IF bs = <<>> THEN [text |-> <<>>, rest |-> <<>>]
    ELSE IF Head(bs) = "C3"
    THEN IF Len(bs) = 1 THEN [text |-> <<>>, rest |-> bs]
         ELSE IF bs[2] = "A9"
         THEN LET d == decode(SubSeq(bs, 3, Len(bs)))
              IN  [text |-> <<"E9">> \o d.text, rest |-> d.rest]
         ELSE LET d == decode(Tail(bs))
              IN  [text |-> <<"FFFD">> \o d.text, rest |-> d.rest]
    ELSE IF Head(bs) = "A9"
    THEN LET d == decode(Tail(bs))
         IN  [text |-> <<"FFFD">> \o d.text, rest |-> d.rest]
    ELSE LET d == decode(Tail(bs))
         IN  [text |-> <<Head(bs)>> \o d.text, rest |-> d.rest]

\* String.prototype.split('\n')
RECURSIVE split(_)
split(t) ==
    IF \A i \in 1..Len(t) : t[i] # "\n" THEN <<t>>
    ELSE LET i == CHOOSE j \in 1..Len(t) :
                      t[j] = "\n" /\ \A k \in 1..(j - 1) : t[k] # "\n"
         IN  <<SubSeq(t, 1, i - 1)>> \o split(SubSeq(t, i + 1, Len(t)))

\* String.prototype.trim
RECURSIVE trim(_)
trim(t) ==
    IF t = <<>> THEN t
    ELSE IF Head(t) \in Whitespace THEN trim(Tail(t))
    ELSE IF t[Len(t)] \in Whitespace THEN trim(SubSeq(t, 1, Len(t) - 1))
    ELSE t

\* JSON.parse(line) followed by the reads of data.message?.content and
\* data.done: ok is FALSE when either throws.
JSONparse(line) ==
    LET t == SelectSeq(line, LAMBDA c : c \notin Whitespace)
    IN  IF Len(t) = 2 /\ t[1] = "{" /\ t[2] = "}"
        THEN [ok |-> TRUE, content |-> "", done |-> FALSE]
        ELSE IF Len(t) = 3 /\ t[1] = "{" /\ t[3] = "}" /\ t[2] \in ContentTokens
        THEN [ok |-> TRUE, content |-> t[2], done |-> FALSE]
        ELSE IF Len(t) = 3 /\ t[1] = "{" /\ t[3] = "}" /\ t[2] = "d"
        THEN [ok |-> TRUE, content |-> "", done |-> TRUE]
        ELSE IF /\ Len(t) = 4 /\ t[1] = "{" /\ t[4] = "}"
                /\ t[2] \in ContentTokens /\ t[3] = "d"
        THEN [ok |-> TRUE, content |-> t[2], done |-> TRUE]
        ELSE [ok |-> FALSE, content |-> "", done |-> FALSE]

\* lines.pop() || '' taking an empty buffer in every case.
restOfBufferLost(ls) == <<>>

\* buffer = lines.pop() || ''
restOfBuffer(ls) == ls[Len(ls)]

\* A chunk yielded for every frame that parses, whatever its content.
yieldsChunkAlways(data) == TRUE

\* if (data.message?.content) yield {...}
yieldsChunk(data) == data.content # ""

\* A catch (parseError) that leaves the generator instead of the iteration.
onParseErrorEnds(more) == "ended"

\* catch (parseError) { console.warn(...) }: the for loop goes on with the
\* next line, or the while loop with the next read.
onParseError(more) == more

\* Whether the generator returns after the frame data: the check of data.done
\* placed inside the branch that yields content.
returnsOnlyWithContent(data) == data.done /\ data.content # ""

\* The check of data.done placed in an else branch of the content check.
returnsOnlyWithoutContent(data) == data.done /\ data.content = ""

\* if (data.done) return
returns(data) == data.done

\* The signal handed to the fetch of the stream is aborted.
StreamAborted == \E s \in streams : s.ctl \in abortedCtl

\* reader.read() returns the next k bytes: decode, append, split, keep the
\* last piece as the buffer, enter the for loop over the complete lines.
Read(k) ==
    /\ spc = "read"
    /\ ~StreamAborted
    /\ k \in 1..(Len(body) - pos)
    /\ Cardinality(cuts) + 1 < MaxReads \/ pos + k = Len(body)
    /\ LET d  == decode(pendingBytes \o SubSeq(body, pos + 1, pos + k))
           ls == split(buffer \o d.text)
       IN  /\ pendingBytes' = d.rest
           /\ buffer' = restOfBuffer(ls)
           /\ lines' = SubSeq(ls, 1, Len(ls) - 1)
           /\ spc' = IF Len(ls) > 1 THEN "lines" ELSE "read"
    /\ pos' = pos + k
    /\ cuts' = cuts \cup {pos + k}
    /\ atYield' = FALSE
    /\ UNCHANGED <<body, yielded, doneSeen, queueVars, callVars>>

StreamRead == \E k \in 1..Len(body) : Read(k)

\* reader.read() returns done: the while loop breaks, the generator returns.
StreamReadDone ==
    /\ spc = "read"
    /\ ~StreamAborted
    /\ pos = Len(body)
    /\ spc' = "ended"
    /\ atYield' = FALSE
    /\ UNCHANGED <<body, pos, cuts, pendingBytes, buffer, lines, yielded,
                   doneSeen, queueVars, callVars>>

\* reader.read() rejects because the transport failed: the error is not an
\* AbortError, stream rethrows it, and streamMessage throws
\* Error(ERROR_MESSAGES.apiError) to the consumer.
StreamFail ==
    /\ spc = "read"
    /\ ~StreamAborted
    /\ spc' = "failed"
    /\ atYield' = FALSE
    /\ UNCHANGED <<body, pos, cuts, pendingBytes, buffer, lines, yielded,
                   doneSeen, queueVars, callVars>>

\* reader.read() rejects with an AbortError because the controller of the
\* stream was aborted: the catch block returns.
StreamAbortError ==
    /\ spc = "read"
    /\ StreamAborted
    /\ spc' = "aborted"
    /\ atYield' = FALSE
    /\ UNCHANGED <<body, pos, cuts, pendingBytes, buffer, lines, yielded,
                   doneSeen, queueVars, callVars>>

\* One iteration of the for loop: skip a blank line, skip a line that does
\* not parse, yield a chunk for non-empty content, return on done.
StreamLine ==
    /\ spc = "lines"
    /\ LET line == Head(lines)
           data == JSONparse(line)
           more == IF Len(lines) > 1 THEN "lines" ELSE "read"
       IN  /\ lines' = Tail(lines)
           /\ IF trim(line) = <<>>
              THEN /\ UNCHANGED <<yielded, doneSeen>>
                   /\ spc' = more
                   /\ atYield' = FALSE
              ELSE IF data.ok
              THEN /\ yielded' =
                        IF yieldsChunk(data)
                        THEN Append(yielded, [content |-> data.content,
                                              done |-> data.done])
                        ELSE yielded
                   /\ doneSeen' = (doneSeen \/ data.done)
                   /\ spc' = IF returns(data) THEN "ended" ELSE more
                   /\ atYield' = (yieldsChunk(data) /\ ~returns(data))
              ELSE /\ UNCHANGED <<yielded, doneSeen>>
                   /\ spc' = onParseError(more)
                   /\ atYield' = FALSE
    /\ UNCHANGED <<body, pos, cuts, pendingBytes, buffer, queueVars, callVars>>

\* The consumer's code runs only while the generator is suspended: awaiting
\* reader.read() or at the yield.
ConsumerRuns == spc = "read" \/ atYield

\* The consumer leaves its for await loop while the generator is suspended
\* at the yield: return() is called on the generator of streamMessage and,
\* through yield*, on the generator of stream, which completes at the yield.
\* No finally block exists there, and the catch block does not run.
ConsumerStops ==
    /\ atYield
    /\ spc' = "returned"
    /\ atYield' = FALSE
    /\ UNCHANGED <<body, pos, cuts, pendingBytes, buffer, lines, yielded,
                   doneSeen, queueVars, callVars>>

\* cancelRequest called while the stream is open.
CancelWhileStreaming == ConsumerRuns /\ CancelRequest

\* setActiveProvider called while the stream is open.
SwitchWhileStreaming == ConsumerRuns /\ SwitchProvider

\* streamMessage was called once with ollama active, and a response whose
\* body is any of Bodies arrived; the generator is at its first
\* reader.read().
InitStream ==
    /\ activeProvider = "ollama"
    /\ requestQueue = <<>>
    /\ isProcessing = FALSE
    /\ abortController = [p \in Providers |-> IF p = "ollama" THEN 1 ELSE Null]
    /\ abortedCtl = {}
    /\ nextCtl = 2
    /\ nRequests = 0
    /\ execs = {}
    /\ nextEid = 1
    /\ promise = <<>>
    /\ started = <<>>
    /\ outcomes = <<>>
    /\ lastSettle = [req |-> 0, what |-> "none"]
    /\ streams = {[ctl |-> 1]}
    /\ nCalls = 1
    /\ nCancel = 0
    /\ dropped = {}
    /\ rejection = <<>>
    /\ lastSwitch = "none"
    /\ checks = {}
    /\ statusResults = {}
    /\ nChecks = 0
    /\ body \in Bodies
    /\ pos = 0
    /\ cuts = {}
    /\ pendingBytes = <<>>
    /\ buffer = <<>>
    /\ lines = <<>>
    /\ yielded = <<>>
    /\ spc = "read"
    /\ doneSeen = FALSE
    /\ atYield = FALSE
    /\ NoCall

NextStream ==
    \/ StreamRead
    \/ StreamReadDone
    \/ StreamLine

SpecStream == InitStream /\ [][NextStream]_vars

\* ---------------------------------------------- cancelling an open stream
\* The same stream with a body of frames that carry content, the last of
\* them possibly terminal, while the consumer calls cancelRequest and
\* setActiveProvider and the transport may fail.
ContentFrames == { <<"{", "a", "}">>, <<"{", "a", "d", "}">> }

ContentBodies ==
    { Flatten(ls) :
        ls \in UNION {[1..n -> ContentFrames] : n \in 1..MaxLines} }

InitCancel == InitStream /\ body \in ContentBodies

NextCancel ==
    \/ StreamRead
    \/ StreamReadDone
    \/ StreamLine
    \/ StreamFail
    \/ StreamAbortError
    \/ CancelWhileStreaming
    \/ SwitchWhileStreaming
    \/ ConsumerStops

SpecCancel == InitCancel /\ [][NextCancel]_vars

\* ------------------------------------------------- one provider call
\* JavaScript values are written as strings: "undefined" for a member that
\* is missing, numbers and booleans by their literals.
Falsy == {"undefined", "", "0", "false"}

\* a || b
Or(a, b) == IF a \in Falsy THEN b ELSE a

\* The nested options.options a caller may pass, spread last into
\* payload.options: left out, one member, all three members.
NestedOptions ==
    { [temperature |-> "undefined", top_p |-> "undefined", max_tokens |-> "undefined"],
      [temperature |-> "0", top_p |-> "undefined", max_tokens |-> "undefined"],
      [temperature |-> "1.5", top_p |-> "0.1", max_tokens |-> "64"] }

\* The options arguments of the calls that are followed.
Options ==
    [model : {"undefined", "mistral:7b"},
     temperature : {"undefined", "0", "0.5"},
     topP : {"undefined", "0", "0.5"},
     maxTokens : {"undefined", "0", "100"},
     options : NestedOptions]

\* The JSON bodies the backend may answer with; text is message.content for
\* /api/chat and response for /api/generate.
Replies ==
    [text : {"undefined", "", "hello"},
     model : {"undefined", "x"},
     done : {"undefined", "false", "true"}]

\* {...defaults, ...options.options}: a member of the nested object
\* replaces the one computed before it.
Spread(value, nested) == IF nested = "undefined" THEN value ELSE nested

\* The payload that chat, generate and stream build (the three write the
\* same expressions).
buildPayload(op, o) ==
    [op |-> op,
     model |-> Or(o.model, "llama2"),
     temperature |-> Spread(Or(o.temperature, "0.7"), o.options.temperature),
     top_p |-> Spread(Or(o.topP, "0.9"), o.options.top_p),
     max_tokens |-> Spread(Or(o.maxTokens, "2048"), o.options.max_tokens)]

\* The object chat and generate return for the reply data.
callResult(data, sent) ==
    [content |-> Or(data.text, ""),
     model |-> Or(data.model, sent.model),
     done |-> Or(data.done, "true")]

\* chat, generate or stream is called and has sent its request.
Send(op) ==
    /\ payload = NoPayload
    /\ payload' = buildPayload(op, options)
    /\ UNCHANGED <<options, reply, result, queueVars, decoderVars>>

CallChat == Send("chat")

CallGenerate == Send("generate")

CallStream == Send("stream")

\* makeRequest resolves with the reply of the backend and chat / generate
\* returns.
CallReturns ==
    /\ payload.op \in {"chat", "generate"}
    /\ result = NoResult
    /\ \E data \in Replies :
        /\ reply' = data
        /\ result' = callResult(data, payload)
    /\ UNCHANGED <<options, payload, queueVars, decoderVars>>

InitCall ==
    /\ InitQueue
    /\ NoStreamBody
    /\ options \in Options
    /\ payload = NoPayload
    /\ reply = NoReply
    /\ result = NoResult

NextCall ==
    \/ CallChat
    \/ CallGenerate
    \/ CallStream
    \/ CallReturns

SpecCall == InitCall /\ [][NextCall]_vars

\* ----------------------------------------------------------------- claims
Requests == 1..nRequests

FinishedOk(r) == "ok" \in outcomes[r]

Executing(r) == \E e \in execs : e.req = r

\* No call has failed or been cancelled, none in flight is bound to (its
\* controller is aborted, or its provider has no implementation), and
\* cancelRequest has removed nothing.
NoneFailsOrCancelled ==
    /\ nCancel = 0
    /\ \A r \in Requests : outcomes[r] \subseteq {"ok"}
    /\ \A e \in execs : e.ctl # Null /\ e.ctl \notin abortedCtl

\* C1: when no request fails or is cancelled, a request has begun execution
\* only if every request submitted before it has finished executing, so
\* provider calls start and finish in submission order.
C1_FifoOrder ==
    NoneFailsOrCancelled =>
        \A r \in Requests :
            /\ started[r] > 0 =>
                   \A r2 \in 1..(r - 1) : FinishedOk(r2) /\ ~Executing(r2)
            /\ FinishedOk(r) => \A r2 \in 1..(r - 1) : FinishedOk(r2)

\* Three requests, the second and third submitted while the first was being
\* processed, have all been executed successfully.
C1_Witness ==
    /\ NoneFailsOrCancelled
    /\ nRequests >= 3
    /\ promise[2] = "undefined" /\ promise[3] = "undefined"
    /\ \A r \in 1..3 : FinishedOk(r)

\* C2: at most one queued request is executing at any time.
C2_AtMostOneExecuting == Cardinality(execs) <= 1

\* C3: the promise of a request settles only after the request itself was
\* executed, and a resolved promise carries the result of its own call.
C3_PromiseAfterOwnExecution ==
    \A r \in Requests :
        promise[r] # "pending" =>
            /\ started[r] > 0 /\ outcomes[r] # {}
            /\ promise[r] # "rejected" => promise[r] = "result" /\ FinishedOk(r)

\* C4: after the executing request fails, the request dispatched next is not
\* the failed one.
C4_NextAfterFailure ==
    [][\A e \in execs :
          (e \notin execs' /\ lastSettle'.what = "fail") =>
              \A n \in execs' \ execs : n.req # e.req]_vars

\* C5: each request is dispatched to a provider at most once.
C5_DispatchedAtMostOnce == \A r \in Requests : started[r] <= 1

C7_CancelAbortsExecuting ==
    [][nCancel' > nCancel =>
          \A e \in execs : e.ctl # Null => e.ctl \in abortedCtl']_vars

\* C8: a stream is opened only while no queued request is executing, and a
\* queued request starts only while no stream is open.
C8_StreamSerialized ==
    [][/\ streams' \ streams # {} => execs = {}
       /\ execs' \ execs # {} => streams = {}]_vars

\* The chunks the for loop yields over the lines ls, up to its return.
RECURSIVE ChunksOf(_)
ChunksOf(ls) ==
    IF ls = <<>> THEN <<>>
    ELSE LET data == JSONparse(Head(ls))
         IN  IF trim(Head(ls)) # <<>> /\ data.ok
             THEN (IF data.content # ""
                   THEN <<[content |-> data.content, done |-> data.done]>>
                   ELSE <<>>)
                  \o (IF data.done THEN <<>> ELSE ChunksOf(Tail(ls)))
             ELSE ChunksOf(Tail(ls))

\* What the generator yields when the whole body b arrives in one read.
SingleRead(b) ==
    LET ls == split(decode(b).text)
    IN  ChunksOf(SubSeq(ls, 1, Len(ls) - 1))

\* C9: however the body is split into reads, the chunks yielded by the time
\* the stream has ended are those yielded when the whole body arrives in a
\* single read.
C9_ChunkingInvariant == spc = "ended" => yielded = SingleRead(body)

\* A body of two frames was read in two reads, the first of which ended
\* between the two bytes of a character inside the first frame; both chunks
\* were yielded.
C9_Witness ==
    /\ spc = "ended"
    /\ body = <<"{", "C3", "A9", "}", "\n", "{", "a", "d", "}", "\n">>
    /\ cuts = {2, 10}
    /\ yielded = <<[content |-> "E9", done |-> FALSE],
                   [content |-> "a", done |-> TRUE]>>

\* C10: the step that decodes a frame with done: true ends the stream, and
\* no chunk is yielded afterwards.
C10_DoneEndsStream ==
    [][/\ doneSeen' => spc' = "ended"
       /\ doneSeen => yielded' = yielded]_vars

\* A terminal frame without content ended the stream while a content frame
\* of the same read and further bytes of the body were still to come.
C10_Witness ==
    /\ doneSeen
    /\ spc = "ended"
    /\ yielded = <<>>
    /\ lines # <<>>
    /\ JSONparse(Head(lines)).content # ""
    /\ pos < Len(body)

\* The newline-terminated lines of the bytes b, in order.
RECURSIVE CompleteLines(_)
CompleteLines(b) ==
    IF \A i \in 1..Len(b) : b[i] # "\n" THEN <<>>
    ELSE LET i == CHOOSE j \in 1..Len(b) :
                      b[j] = "\n" /\ \A k \in 1..(j - 1) : b[k] # "\n"
         IN  <<SubSeq(b, 1, i - 1)>> \o CompleteLines(SubSeq(b, i + 1, Len(b)))

\* The well-formed frames among FrameLines, with the content and the
\* terminal flag each one carries.
IsFrame(l) ==
    l \in { <<"{", "a", "}">>, <<"{", "C3", "A9", "}">>,
            <<"{", "a", "d", "}">>, <<"{", "d", "}">> }

FrameContent(l) ==
    CASE l = <<"{", "a", "}">> -> "a"
      [] l = <<"{", "C3", "A9", "}">> -> "E9"
      [] l = <<"{", "a", "d", "}">> -> "a"
      [] OTHER -> ""

FrameDone(l) == l \in { <<"{", "a", "d", "}">>, <<"{", "d", "}">> }

\* The non-empty contents of the well-formed frames among the lines ls, up
\* to and including the first terminal frame.
RECURSIVE ContentsUpToDone(_)
ContentsUpToDone(ls) ==
    IF ls = <<>> THEN <<>>
    ELSE LET l == Head(ls)
         IN  IF ~IsFrame(l) THEN ContentsUpToDone(Tail(ls))
             ELSE (IF FrameContent(l) # "" THEN <<FrameContent(l)>> ELSE <<>>)
                  \o (IF FrameDone(l) THEN <<>>
                      ELSE ContentsUpToDone(Tail(ls)))

\* C11: when a stream has ended, the contents it yielded are exactly, in
\* order, the non-empty contents of the newline-terminated well-formed
\* frames of the body up to and including the first terminal frame; a frame
\* without content yields no chunk.
C11_YieldedContents ==
    spc = "ended" =>
        [i \in 1..Len(yielded) |-> yielded[i].content]
            = ContentsUpToDone(CompleteLines(body))

\* A content frame, then a terminal frame without content, then an
\* unterminated content frame: one chunk was yielded.
C11_Witness ==
    /\ spc = "ended"
    /\ body = <<"{", "C3", "A9", "}", "\n", "{", "d", "}", "\n", "{", "a", "}">>
    /\ Len(yielded) = 1
    /\ yielded[1].content = "E9"

\* The complete lines of b that are neither blank nor well-formed frames.
Malformed(l) == ~IsFrame(l) /\ \E i \in 1..Len(l) : l[i] \notin Whitespace

HasMalformed(b) ==
    \E i \in 1..Len(CompleteLines(b)) : Malformed(CompleteLines(b)[i])

\* The bytes b without their malformed complete lines.
RECURSIVE WithoutMalformed(_)
WithoutMalformed(b) ==
    IF \A i \in 1..Len(b) : b[i] # "\n" THEN b
    ELSE LET i == CHOOSE j \in 1..Len(b) :
                      b[j] = "\n" /\ \A k \in 1..(j - 1) : b[k] # "\n"
             l == SubSeq(b, 1, i - 1)
         IN  (IF Malformed(l) THEN <<>> ELSE SubSeq(b, 1, i))
             \o WithoutMalformed(SubSeq(b, i + 1, Len(b)))

\* C12: a line that does not parse neither ends nor fails the stream, and
\* the chunks yielded for a body holding such lines are those yielded for
\* the same body without them.
C12_MalformedSkipped ==
    HasMalformed(body) =>
        /\ spc # "failed"
        /\ spc = "ended" => yielded = SingleRead(WithoutMalformed(body))

\* A truncated frame was followed by a terminal frame with content, which
\* was yielded.
C12_Witness ==
    /\ spc = "ended"
    /\ body = <<"{", "a", "\n", "{", "a", "d", "}", "\n">>
    /\ yielded = <<[content |-> "a", done |-> TRUE]>>

\* C13 as stated: a stream that has ended delivered exactly one chunk whose
\* done flag is true, and that chunk is the last one delivered.
C13_ExactlyOneTerminalChunk ==
    spc = "ended" =>
        /\ Len(yielded) > 0
        /\ \A i \in 1..Len(yielded) : yielded[i].done <=> i = Len(yielded)

\* C13 amended: a stream delivers at most one chunk whose done flag is true;
\* that chunk is the last one delivered and the stream ends with it.
C13_TerminalChunkIsLast ==
    \A i \in 1..Len(yielded) :
        yielded[i].done => i = Len(yielded) /\ spc = "ended"

\* A content chunk and then a chunk with the done flag were delivered, and
\* the rest of the body, an unterminated frame, was left undelivered.
C13_Witness ==
    /\ spc = "ended"
    /\ Len(yielded) = 2
    /\ ~yielded[1].done /\ yielded[2].done
    /\ buffer # <<>>

\* C14: once cancelRequest has been called while a stream is open, the
\* stream does not end by throwing an error to the consumer.
C14_CancelEndsNormally == nCancel > 0 => spc # "failed"

\* C15: once the controller of a stream has been aborted by a cancel, no
\* further chunk is yielded, not even for a line of a read that was split
\* before the cancel.
C15_NoChunkAfterCancel == [][StreamAborted => yielded' = yielded]_vars

\* C16: a request ended by cancellation and a request ended by a network
\* failure are reported to the callers of sendMessage / generateText with
\* different errors.
C16_CancelDistinguishable ==
    \A r1 \in Requests, r2 \in Requests :
        (/\ rejection[r1].error = "Request cancelled"
         /\ rejection[r2].error = "Failed to fetch")
            => rejection[r1].thrown # rejection[r2].thrown

\* C17: every checkStatus call that has settled resolved with a status
\* result; none rejected, whatever name it was called with and however the
\* probe and the model listing ended.
C17_CheckStatusNeverRejects ==
    \A res \in statusResults : res.settled = "resolved"

\* C18: when both the status probe and the model listing failed at transport
\* level, the result has online false, an empty model list and an error
\* description.
C18_UnreachableReportsError ==
    \A res \in statusResults :
        (res.probe = "fail" /\ res.listing = "fail") =>
            /\ res.settled = "resolved"
            /\ ~res.online
            /\ res.models = "empty"
            /\ res.error # "none"

\* No operation is bound: no controller to the active provider, and the
\* queue holds and processes nothing.
Unbound ==
    /\ abortController[getProvider(Omitted)] = Null
    /\ requestQueue = <<>>
    /\ ~isProcessing

\* The state of the manager and of its providers, without the counters and
\* histories of the model.
managerState ==
    <<activeProvider, requestQueue, isProcessing, abortController, abortedCtl,
      execs, promise, streams>>

C20_ActiveProviderRegistered ==
    /\ [](activeProvider \in Providers)
    /\ [][lastSwitch' = "false" => activeProvider' = activeProvider]_vars

\* After a switch to openai, a setActiveProvider call with a name that is
\* not registered returned false, and openai is still active.
C20_Witness ==
    /\ lastSwitch = "false"
    /\ activeProvider = "openai"

\* The value the caller supplied for a member, the nested options.options
\* taking precedence, or the default when the caller supplied none.
Supplied(top, nested, default) ==
    IF nested # "undefined" THEN nested
    ELSE IF top # "undefined" THEN top
    ELSE default

\* C21: the payload of chat, generate and stream carries for temperature,
\* top_p and max_tokens the value the caller supplied, the value 0 included,
\* and the default (0.7, 0.9, 2048) only when the caller supplied none.
C21_CallerOptionsKept ==
    payload # NoPayload =>
        /\ payload.temperature =
               Supplied(options.temperature, options.options.temperature, "0.7")
        /\ payload.top_p = Supplied(options.topP, options.options.top_p, "0.9")
        /\ payload.max_tokens =
               Supplied(options.maxTokens, options.options.max_tokens, "2048")

\* C22: for a reply that carries content c, model m and done d, chat and
\* generate return content c, model m and done d.
C22_ResultMapsReply ==
    (/\ result # NoResult
     /\ reply.text # "undefined"
     /\ reply.model # "undefined"
     /\ reply.done # "undefined")
        => result = [content |-> reply.text, model |-> reply.model,
                     done |-> reply.done]

\* The serializer is Idle: nothing is being processed, queued or executed.
Idle == ~isProcessing /\ requestQueue = <<>> /\ execs = {}

\* C23: the serializer returns to Idle once the provider calls have settled:
\* when the only call in flight settles, by success or by failure, and no
\* other request is waiting in the queue, the serializer is Idle after the
\* step.
C23_SettledGoesIdle ==
    [][\A e \in execs :
          (/\ execs = {e}
           /\ e \notin execs'
           /\ Range(requestQueue) \subseteq {e.req})
              => Idle']_vars

\* C24: a call is dispatched to the provider that is active at that moment,
\* and the provider serving a call in flight is the one it was dispatched
\* to, whatever setActiveProvider does meanwhile.
C24_ProviderAtDispatch ==
    [][/\ \A e \in execs' \ execs : e.prov = activeProvider
       /\ \A e \in execs : \A e2 \in execs' :
              e2.eid = e.eid => e2.prov = e.prov]_vars

\* Request 1 ran on ollama; request 2, queued behind it, was dispatched to
\* openai after a switch made before it started, and is still served by
\* openai after a later switch to google.
C24_Witness ==
    /\ nRequests >= 2
    /\ "ok" \in outcomes[1]
    /\ promise[2] = "undefined"
    /\ activeProvider = "google"
    /\ \E e \in execs : e.req = 2 /\ e.prov = "openai"

\* The controllers of the transport attempts in flight.
InFlightCtl ==
    ({e.ctl : e \in execs} \cup {s.ctl : s \in streams}
        \cup {c.ctl : c \in checks}) \ {Null}

\* The controllers of the transport attempts that start in the step.
StartedCtl ==
    ({e.ctl : e \in execs' \ execs} \cup {s.ctl : s \in streams' \ streams}
        \cup {c.ctl : c \in checks' \ checks}) \ {Null}

\* C25: every transport attempt that starts holds the controller bound in
\* that step, which is a new object: no attempt in flight holds it, no
\* provider had it bound, and it is not aborted.
C25_FreshController ==
    /\ [](\A c \in InFlightCtl \cup {abortController[p] : p \in Providers} :
              c < nextCtl)
    /\ [][\A c \in StartedCtl :
              /\ \E p \in Providers : abortController'[p] = c
              /\ c >= nextCtl /\ c < nextCtl'
              /\ c \notin abortedCtl \cup abortedCtl']_vars

\* A chat call was cancelled, and the next call and a stream each started on
\* a controller of their own: three controllers have been created.
C25_Witness ==
    /\ nCancel >= 1
    /\ \E r \in Requests : "cancelled" \in outcomes[r]
    /\ streams # {}
    /\ nextCtl >= 4

\* A transport attempt is in flight on provider p (only ollama opens
\* streams).
AttemptInFlight(p) ==
    \/ \E e \in execs : e.prov = p /\ e.ctl # Null
    \/ \E c \in checks : c.prov = p /\ c.ctl # Null
    \/ p = "ollama" /\ streams # {}

\* C26: a provider on which no transport attempt is in flight has no abort
\* controller bound.
C26_ClearedWhenFinished ==
    \A p \in Providers : ~AttemptInFlight(p) => abortController[p] = Null

\* C27: when the consumer has stopped iterating a stream before its
\* terminal frame was decoded, the controller of the stream is aborted.
C27_StopCancelsTransport ==
    (spc = "returned" /\ ~doneSeen) => StreamAborted

\* C28: isProcessing agrees with execution: while a request is executing
\* isProcessing is true, so that while it is false none is executing.
C28_FlagAgreesWithExecution == execs # {} => isProcessing

\* The submitted requests none of whose calls has settled.
Unfinished == {r \in Requests : outcomes[r] = {}}

\* C29: the queue holds each request at most once, and no more entries than
\* there are submitted requests that have not finished.
C29_QueueWithoutDuplicates ==
    /\ \A i \in 1..Len(requestQueue), j \in 1..Len(requestQueue) :
           requestQueue[i] = requestQueue[j] => i = j
    /\ Len(requestQueue) <= Cardinality(Unfinished)

\* The controllers of the transport attempts in flight on provider p. Only
\* OllamaProvider opens streams and fetches a model list.
InFlightOn(p) ==
    {e.ctl : e \in {x \in execs : x.prov = p}}
        \cup (IF HasTransport(p) THEN {s.ctl : s \in streams} ELSE {})
        \cup ({c.ctl : c \in {x \in checks : x.prov = p}} \ {Null})

\* C30: a step that binds a new controller on a provider (a chat, generate
\* or stream call, or the getModels of a status check) aborts the controller
\* bound to that provider before, so that every attempt that was in flight on
\* the provider and has not settled in the step holds an aborted controller.
C30_StartAbortsPrevious ==
    [][\A p \in Providers :
          (abortController'[p] # Null /\ abortController'[p] # abortController[p])
              => \A c \in ((InFlightOn(p) \cup {abortController[p]}) \cap HeldCtl)
                             \ {Null} :
                     c \in abortedCtl']_vars

\* No cancelRequest was called; a chat and a stream are in flight on ollama
\* with aborted controllers, and the getModels of a status check holds the
\* controller bound to ollama.
C30_Witness ==
    /\ nCancel = 0
    /\ \E e \in execs : e.prov = "ollama" /\ e.ctl \in abortedCtl
    /\ \E s \in streams : s.ctl \in abortedCtl
    /\ \E c \in checks :
           /\ c.phase = "models"
           /\ c.ctl = abortController["ollama"]
           /\ c.ctl \notin abortedCtl

====
